---- MODULE Spec2Model ----
(***************************************************************************)
(* A model of scripts/incremental_build/cuj_catalog.py: the recipes that   *)
(* build reversible filesystem-mutation scenarios (CujGroups of CujSteps)  *)
(* and the closures their Steps run.                                       *)
(*                                                                         *)
(* The filesystem is a function from the paths that exist to their entry   *)
(* (a directory, or a regular file with its bytes).  A path is a sequence  *)
(* of names.  File contents are sequences of bytes, Python str values are  *)
(* sequences of characters; Encode/Decode convert between the two the way  *)
(* text-mode open() does on Linux (UTF-8, universal newlines on read).     *)
(*                                                                         *)
(* Every recipe call and every Step.apply_change is one action.  A call    *)
(* that raises is an action too: it records raised = TRUE in `last`.       *)
(***************************************************************************)
EXTENDS Integers, Sequences, FiniteSets, TLC

VARIABLES
    fs,            \* the filesystem: path -> entry, for the paths that exist
    groups,        \* slot -> the CujGroup a recipe call returned (its closure variables)
    original_text, \* cell -> the nonlocal original_text of a regex_modify_revert call
    next_uuid,     \* the next value uuid.uuid4() / random.randint() hands out
    tempdir,       \* tempfile.gettempdir()
    out_dir,       \* util.get_out_dir()
    last,          \* the last call: which recipe or Step, and whether it raised
    hist,          \* per slot: the caller's record of the Steps it has applied
    build_type,    \* the active BuildType of the run
    log_dir,       \* ui.get_user_input().log_dir
    cache,         \* the memo functools.cache keeps for get_cujgroups()
    catalog,       \* what the last call of get_cujgroups() returned to its caller
    logged         \* the records the last call of a Step's verify wrote to the log

\* the variables of a run of the catalog, which no recipe and no apply_change touches
run_vars == <<build_type, log_dir, cache, catalog, logged>>

vars == <<fs, groups, original_text, next_uuid, tempdir, out_dir, last, hist, run_vars>>

(***************************************************************************)
(* Bounds of the model.                                                    *)
(***************************************************************************)
MaxGroups == 2      \* recipe calls in one behaviour
MaxFileLen == 8     \* a file never grows beyond this many bytes
MaxUuid == 2        \* uuid.uuid4() calls in one behaviour

Slots == 1..MaxGroups

(***************************************************************************)
(* Paths.                                                                  *)
(***************************************************************************)
Root == << >>
NoPath == << >>              \* Python's None where a Path is optional
TopDir == <<"src">>          \* util.get_top_dir()
Parent(p) == SubSeq(p, 1, Len(p) - 1)
Name(p) == p[Len(p)]
Join(p, n) == Append(p, n)

\* PurePath.is_relative_to(other): other is p or a lexical ancestor of p
IsRelativeTo(p, other) ==
    /\ Len(other) <= Len(p)
    /\ SubSeq(p, 1, Len(other)) = other

\* Path.parents, nearest first, the root last
Parents(p) == [i \in 1..Len(p) |-> SubSeq(p, 1, Len(p) - i)]

(***************************************************************************)
(* Entries and elementary filesystem operations.                           *)
(***************************************************************************)
DirEntry == [kind |-> "dir", data |-> << >>]
FileEntry(bytes) == [kind |-> "file", data |-> bytes]

Exists(f, p) == p \in DOMAIN f
IsDir(f, p) == Exists(f, p) /\ f[p].kind = "dir"
IsFile(f, p) == Exists(f, p) /\ f[p].kind = "file"

Put(f, p, e) == [q \in DOMAIN f \cup {p} |-> IF q = p THEN e ELSE f[q]]
Remove(f, p) == [q \in DOMAIN f \ {p} |-> f[q]]
RemoveTree(f, p) == [q \in {r \in DOMAIN f : ~IsRelativeTo(r, p)} |-> f[q]]
Children(f, p) == {q \in DOMAIN f : Len(q) = Len(p) + 1 /\ IsRelativeTo(q, p)}

\* the outcome of a call on the filesystem: the new filesystem, and whether it raised
Ok(f) == [fs |-> f, raised |-> FALSE]
Raise(f) == [fs |-> f, raised |-> TRUE]

(***************************************************************************)
(* Text: characters, bytes, and the conversions of text-mode I/O.          *)
(* Every character is one byte in UTF-8 except "eacute" (U+00E9), which   *)
(* is two.                                                                 *)
(***************************************************************************)
EncodeChar(c) == IF c = "eacute" THEN <<"C3", "A9">> ELSE <<c>>

RECURSIVE Encode(_)
\* str -> bytes, as TextIOWrapper.write does (UTF-8; "\n" stays "\n" on Linux)
Encode(text) ==
    IF text = << >> THEN << >>
    ELSE EncodeChar(Head(text)) \o Encode(Tail(text))

RECURSIVE ValidUtf8(_)
ValidUtf8(bytes) ==
    IF bytes = << >> THEN TRUE
    ELSE IF Head(bytes) = "C3"
         THEN Len(bytes) >= 2 /\ bytes[2] = "A9" /\ ValidUtf8(SubSeq(bytes, 3, Len(bytes)))
    ELSE IF Head(bytes) = "A9" THEN FALSE
    ELSE ValidUtf8(Tail(bytes))

RECURSIVE DecodeUtf8(_)
DecodeUtf8(bytes) ==
    IF bytes = << >> THEN << >>
    ELSE IF Head(bytes) = "C3"
         THEN <<"eacute">> \o DecodeUtf8(SubSeq(bytes, 3, Len(bytes)))
    ELSE <<Head(bytes)>> \o DecodeUtf8(Tail(bytes))

RECURSIVE UniversalNewlines(_)
\* newline=None on read: "\r\n" and "\r" both become "\n"
UniversalNewlines(text) ==
    IF text = << >> THEN << >>
    ELSE IF Head(text) = "CR"
         THEN IF Len(text) >= 2 /\ text[2] = "LF"
              THEN <<"LF">> \o UniversalNewlines(SubSeq(text, 3, Len(text)))
              ELSE <<"LF">> \o UniversalNewlines(Tail(text))
    ELSE <<Head(text)>> \o UniversalNewlines(Tail(text))

\* bytes -> str, as Path.read_text() does; defined for valid UTF-8 only
Decode(bytes) == UniversalNewlines(DecodeUtf8(bytes))

(***************************************************************************)
(* re.sub(pattern, replacement, text, count=1, flags=re.MULTILINE).        *)
(* A pattern is a literal with optional ^ and $ anchors (the shape of the  *)
(* catalog's patterns); a replacement is literal text, optionally led by   *)
(* \1 where the pattern is one whole group.                                *)
(***************************************************************************)
MatchAt(pattern, text, i) ==
    LET n == Len(pattern.lit)
        e == i + n - 1
    IN /\ e <= Len(text)
       /\ SubSeq(text, i, e) = pattern.lit
       /\ pattern.bol => (i = 1 \/ text[i - 1] = "LF")
       /\ pattern.eol => (e = Len(text) \/ text[e + 1] = "LF")

Matches(pattern, text) == {i \in 1..Len(text) : MatchAt(pattern, text, i)}

Expand(replacement, matched) ==
    IF replacement.keep THEN matched \o replacement.text ELSE replacement.text

ReSub(pattern, replacement, text) ==
    IF Matches(pattern, text) = {} THEN text
    ELSE LET i == CHOOSE j \in Matches(pattern, text) :
                      \A k \in Matches(pattern, text) : j <= k
             e == i + Len(pattern.lit) - 1
         IN SubSeq(text, 1, i - 1)
            \o Expand(replacement, SubSeq(text, i, e))
            \o SubSeq(text, e + 1, Len(text))

(***************************************************************************)
(* The file operations the closures call.                                  *)
(***************************************************************************)
\* open(file, mode="a") ... f.write(text)
AppendText(f, file, text) ==
    IF IsFile(f, file)
    THEN Ok(Put(f, file, FileEntry(f[file].data \o Encode(text))))
    ELSE IF ~Exists(f, file) /\ IsDir(f, Parent(file))
    THEN Ok(Put(f, file, FileEntry(Encode(text))))
    ELSE Raise(f)

\* open(file, mode="rb+") ... f.seek(-n, io.SEEK_END); f.truncate()
SeekEndTruncate(f, file, n) ==
    IF ~IsFile(f, file) THEN Raise(f)
    ELSE IF n > Len(f[file].data) THEN Raise(f)
    ELSE Ok(Put(f, file, FileEntry(SubSeq(f[file].data, 1, Len(f[file].data) - n))))

\* Path.read_text() succeeds on a regular file that decodes
CanReadText(f, file) == IsFile(f, file) /\ ValidUtf8(f[file].data)
ReadText(f, file) == Decode(f[file].data)

\* Path.write_text(text): open(mode="w") creates or truncates, then writes
WriteText(f, file, text) ==
    IF IsFile(f, file) \/ (~Exists(f, file) /\ IsDir(f, Parent(file)))
    THEN Ok(Put(f, file, FileEntry(Encode(text))))
    ELSE Raise(f)

\* the path of q once its ancestor a has been renamed to b
Rebase(q, a, b) == b \o SubSeq(q, Len(a) + 1, Len(q))

\* Path.rename(target), i.e. rename(2) within one filesystem
Rename(f, a, b) ==
    IF ~Exists(f, a) \/ ~IsDir(f, Parent(b)) THEN Raise(f)
    ELSE IF a = b THEN Ok(f)
    ELSE IF IsFile(f, a)
    THEN IF IsDir(f, b) THEN Raise(f)
         ELSE Ok(Put(Remove(f, a), b, f[a]))
    ELSE IF IsFile(f, b) \/ IsRelativeTo(b, a) \/ Children(f, b) # {} THEN Raise(f)
    ELSE LET moved == {q \in DOMAIN f : IsRelativeTo(q, a)}
             kept == DOMAIN f \ moved
         IN Ok([q \in kept \cup {Rebase(r, a, b) : r \in moved} |->
                  IF \E r \in moved : Rebase(r, a, b) = q
                  THEN f[CHOOSE r \in moved : Rebase(r, a, b) = q]
                  ELSE f[q]])

(***************************************************************************)
(* CujGroups.  A slot holds what a recipe call returned: the verbs of its  *)
(* Steps and the variables its closures captured.                          *)
(***************************************************************************)
NoPattern == [bol |-> FALSE, lit |-> << >>, eol |-> FALSE]
NoReplacement == [keep |-> FALSE, text |-> << >>]
Unset == [set |-> FALSE, val |-> << >>]
EmptyFs == [p \in {} |-> DirEntry]

\* a Verifier: an InWorkspace relationship of a path, or a check of the content
\* of a merged build file, skipped under the build types of skip_for
InWorkspaceVerifier(ws, file) ==
    [kind |-> "InWorkspace", ws |-> ws, file |-> file, content |-> << >>, skip_for |-> {}]
\* CujStep's default verify: nothing to run
NoVerify == << >>

\* kind names the closures of the Steps, recipe the function that returned the
\* Group, verify[s] the Verifiers Step s runs in sequence
NoGroup ==
    [kind |-> "none", recipe |-> "none", steps |-> << >>, verify |-> << >>,
     file |-> NoPath, text |-> << >>,
     pattern |-> NoPattern, replacement |-> NoReplacement,
     shallowest_missing_dir |-> NoPath, bp_shallowest_missing_dir |-> NoPath,
     copied |-> NoPath]

\* the outcome of a recipe call: the Group it returned unless it raised, and the
\* next unused uuid
Return(group, u) == [raised |-> FALSE, group |-> group, next_uuid |-> u]
Throw(u) == [raised |-> TRUE, group |-> NoGroup, next_uuid |-> u]

NoHist == [prev |-> 0, pos |-> 0, start |-> EmptyFs, cap |-> Unset]

Built == {g \in Slots : groups[g].kind # "none"}
HasFreeSlot == Built # Slots
FreeSlot == CHOOSE g \in Slots \ Built : \A h \in Slots \ Built : g <= h

\* f"//BOGUS {uuid.uuid4()}\n": ASCII, one character standing for the uuid
BogusText(u) == <<"/", "u" \o ToString(u), "LF">>
\* f"//Test File: safe to delete {uuid.uuid4()}\n"
TestFileText(u) == <<"T", "u" \o ToString(u), "LF">>

\* a recipe call that raised: no Group is returned
Raised(op) == [op |-> op, g |-> 0, step |-> 0, raised |-> TRUE]
\* a recipe call that returned a Group into slot g
Returned(op, g) == [op |-> op, g |-> g, step |-> 0, raised |-> FALSE]

\* the closure cell a regex_modify_revert call creates for its two closures
CellShared(g) == 1
Cell(g) == g

(***************************************************************************)
(* What the caller of a Step observes and remembers (hist):                *)
(*   prev   the last Step of the Group that was applied without raising    *)
(*   pos    how many Steps of the Group, from the first and in order, have *)
(*          just been applied without raising and with no other call of    *)
(*          apply_change in between                                        *)
(*   start  the filesystem when that run's first Step was called           *)
(*   cap    the text the Group's own modify last read from the file        *)
(***************************************************************************)
NextPos(g, s, raised) ==
    IF raised THEN 0
    ELSE IF s = 1 THEN 1
    ELSE IF s = hist[g].pos + 1 THEN s
    ELSE 0

Applied(g, s, r, cap) ==
    /\ fs' = r.fs
    /\ last' = [op |-> "apply_change", g |-> g, step |-> s, raised |-> r.raised]
    /\ hist' = [h \in Slots |->
                  IF h = g
                  THEN LET pos == NextPos(g, s, r.raised)
                       IN [prev |-> IF r.raised THEN hist[g].prev ELSE s,
                           pos |-> pos,
                           start |-> IF pos = 0 THEN EmptyFs
                                     ELSE IF s = 1 THEN fs ELSE hist[g].start,
                           cap |-> cap]
                  ELSE [hist[h] EXCEPT !.pos = 0, !.start = EmptyFs]]

(***************************************************************************)
(* modify_revert                                                           *)
(***************************************************************************)
\* text is [given |-> FALSE] for None, else [given |-> TRUE, val |-> the str]
modify_revert(f, file, text, u) ==
    LET u2 == IF text.given THEN u ELSE u + 1
    IN IF ~Exists(f, file) THEN Throw(u2)
       ELSE Return([NoGroup EXCEPT !.kind = "modify_revert",
                                   !.recipe = "modify_revert",
                                   !.steps = <<"modify", "revert">>,
                                   !.verify = <<NoVerify, NoVerify>>,
                                   !.file = file,
                                   !.text = IF text.given THEN text.val
                                            ELSE BogusText(u)],
                   u2)

\* a call of recipe op whose outcome is r: the Group goes to the free slot
Called(op, r) ==
    /\ HasFreeSlot
    /\ r.next_uuid # next_uuid => next_uuid <= MaxUuid
    /\ next_uuid' = r.next_uuid
    /\ IF r.raised
       THEN /\ last' = Raised(op)
            /\ UNCHANGED groups
       ELSE /\ groups' = [groups EXCEPT ![FreeSlot] = r.group]
            /\ last' = Returned(op, FreeSlot)

ModifyRevert(file, text) ==
    /\ Called("modify_revert", modify_revert(fs, file, text, next_uuid))
    /\ UNCHANGED <<fs, original_text, tempdir, out_dir, hist, run_vars>>

AddLine(g) ==
    /\ groups[g].kind = "modify_revert"
    /\ LET r == AppendText(fs, groups[g].file, groups[g].text)
       IN /\ IsFile(r.fs, groups[g].file) => Len(r.fs[groups[g].file].data) <= MaxFileLen
          /\ Applied(g, 1, r, hist[g].cap)
    /\ UNCHANGED <<groups, original_text, next_uuid, tempdir, out_dir, run_vars>>

Revert(g) ==
    /\ groups[g].kind = "modify_revert"
    /\ Applied(g, 2, SeekEndTruncate(fs, groups[g].file, Len(groups[g].text)), hist[g].cap)
    /\ UNCHANGED <<groups, original_text, next_uuid, tempdir, out_dir, run_vars>>

(***************************************************************************)
(* regex_modify_revert                                                     *)
(***************************************************************************)
regex_modify_revert(f, file, pattern, replacement, modify_type, u) ==
    IF ~Exists(f, file) THEN Throw(u)
    ELSE Return([NoGroup EXCEPT !.kind = "regex_modify_revert",
                                !.recipe = "regex_modify_revert",
                                !.steps = <<modify_type, "revert">>,
                                !.verify = <<NoVerify, NoVerify>>,
                                !.file = file,
                                !.pattern = pattern,
                                !.replacement = replacement],
                u)

RegexModifyRevert(file, pattern, replacement, modify_type) ==
    /\ Called("regex_modify_revert",
              regex_modify_revert(fs, file, pattern, replacement, modify_type, next_uuid))
    /\ UNCHANGED <<fs, original_text, tempdir, out_dir, hist, run_vars>>

RegexModify(g) ==
    /\ groups[g].kind = "regex_modify_revert"
    /\ LET file == groups[g].file
       IN IF ~CanReadText(fs, file)
          THEN /\ Applied(g, 1, Raise(fs), hist[g].cap)
               /\ UNCHANGED original_text
          ELSE LET read == ReadText(fs, file)
                   modified_text == ReSub(groups[g].pattern, groups[g].replacement, read)
               IN /\ Len(Encode(modified_text)) <= MaxFileLen
                  /\ original_text' = [original_text EXCEPT ![Cell(g)] =
                                          [set |-> TRUE, val |-> read]]
                  /\ Applied(g, 1, WriteText(fs, file, modified_text),
                             [set |-> TRUE, val |-> read])
    /\ UNCHANGED <<groups, next_uuid, tempdir, out_dir, run_vars>>

RegexRevert(g) ==
    /\ groups[g].kind = "regex_modify_revert"
    /\ IF ~original_text[Cell(g)].set
       THEN Applied(g, 2, Raise(fs), hist[g].cap)
       ELSE Applied(g, 2, WriteText(fs, groups[g].file, original_text[Cell(g)].val),
                    hist[g].cap)
    /\ UNCHANGED <<groups, original_text, next_uuid, tempdir, out_dir, run_vars>>

(***************************************************************************)
(* delete_restore                                                          *)
(***************************************************************************)
\* the two checks on tempfile.gettempdir(); FALSE is SystemExit
TempdirAllowedTopOnly(t) == ~IsRelativeTo(t, TopDir)
TempdirAllowed(t) == ~IsRelativeTo(t, TopDir) /\ ~IsRelativeTo(t, out_dir)

\* a backup name made of the file's name alone
BakNameNoUuid(name, u) == name \o ".bak"

\* f"{original.name}-{uuid.uuid4()}.bak"
BakName(name, u) == name \o "-u" \o ToString(u) \o ".bak"

delete_restore(original, ws, u) ==
    IF ~TempdirAllowed(tempdir) THEN Throw(u)
    ELSE Return([NoGroup EXCEPT !.kind = "delete_restore",
                                !.recipe = "delete_restore",
                                !.steps = <<"delete", "restore">>,
                                !.verify = <<<<InWorkspaceVerifier("OMISSION", original)>>,
                                             <<InWorkspaceVerifier(ws, original)>>>>,
                                !.file = original,
                                !.copied = Join(tempdir, BakName(Name(original), u))],
                u + 1)

DeleteRestore(original, ws) ==
    /\ Called("delete_restore", delete_restore(original, ws, next_uuid))
    /\ UNCHANGED <<fs, original_text, tempdir, out_dir, hist, run_vars>>

MoveToTempdir(g) ==
    /\ groups[g].kind = "delete_restore"
    /\ Applied(g, 1, Rename(fs, groups[g].file, groups[g].copied), hist[g].cap)
    /\ UNCHANGED <<groups, original_text, next_uuid, tempdir, out_dir, run_vars>>

Restore(g) ==
    /\ groups[g].kind = "delete_restore"
    /\ Applied(g, 2, Rename(fs, groups[g].copied, groups[g].file), hist[g].cap)
    /\ UNCHANGED <<groups, original_text, next_uuid, tempdir, out_dir, run_vars>>

(***************************************************************************)
(* create_delete                                                           *)
(***************************************************************************)
\* the content create_delete_bp gives its Android.bp
BpText == <<"B">>
BpFile(p) == Join(p, "Android.bp")

\* missing_dirs = [f for f in file.parents if not f.exists()], nearest first
MissingDirs(f, file) ==
    SelectSeq(Parents(file), LAMBDA d : ~Exists(f, d))

\* missing_dirs[-1] if len(missing_dirs) else None
ShallowestMissingDir(f, file) ==
    IF Len(MissingDirs(f, file)) > 0
    THEN MissingDirs(f, file)[Len(MissingDirs(f, file))]
    ELSE NoPath

\* Path.mkdir(parents=True, exist_ok=True)
MkdirParents(f, d) ==
    LET chain == {SubSeq(d, 1, i) : i \in 0..Len(d)}
    IN IF \E a \in chain : IsFile(f, a) THEN Raise(f)
       ELSE Ok([q \in DOMAIN f \cup chain |-> IF Exists(f, q) THEN f[q] ELSE DirEntry])

\* the closure create() without its guard: it overwrites what is there
createOverwrites(f, file, text) ==
    LET made == MkdirParents(f, Parent(file))
    IN IF made.raised \/ IsDir(f, file) THEN Raise(f)
       ELSE Ok(Put(made.fs, file, FileEntry(Encode(text))))
\* the closure create()
create(f, file, text) ==
    IF Exists(f, file) THEN Raise(f)
    ELSE LET made == MkdirParents(f, Parent(file))
         IN IF made.raised THEN Raise(f)
            ELSE Ok(Put(made.fs, file, FileEntry(Encode(text))))

\* the closure delete(): shutil.rmtree(shallowest_missing_dir) or file.unlink()
delete(f, file, shallowest_missing_dir) ==
    IF shallowest_missing_dir # NoPath
    THEN IF IsDir(f, shallowest_missing_dir)
         THEN Ok(RemoveTree(f, shallowest_missing_dir))
         ELSE Raise(f)
    ELSE IF IsFile(f, file) THEN Ok(Remove(f, file))
    ELSE Raise(f)

\* the verify of the two Steps create_delete returns
create_delete_verifiersBoth(file, ws) ==
    << <<InWorkspaceVerifier(ws, file)>>, <<InWorkspaceVerifier(ws, file)>> >>
create_delete_verifiers(file, ws) ==
    << <<InWorkspaceVerifier(ws, file)>>, <<InWorkspaceVerifier("OMISSION", file)>> >>

create_delete(f, file, ws, text, u) ==
    Return([NoGroup EXCEPT !.kind = "create_delete",
                           !.recipe = "create_delete",
                           !.steps = <<"create", "delete">>,
                           !.verify = create_delete_verifiers(file, ws),
                           !.file = file,
                           !.text = IF text.given THEN text.val
                                    ELSE TestFileText(u),
                           !.shallowest_missing_dir = ShallowestMissingDir(f, file)],
           IF text.given THEN u ELSE u + 1)

\* a create_delete that would run its create Step as soon as it is called
CreateDeleteEager(file, ws, text) ==
    LET r == create_delete(fs, file, ws, text, next_uuid)
    IN /\ Called("create_delete", r)
       /\ fs' = IF r.raised THEN fs ELSE create(fs, file, r.group.text).fs
       /\ UNCHANGED <<original_text, tempdir, out_dir, hist, run_vars>>

CreateDelete(file, ws, text) ==
    /\ Called("create_delete", create_delete(fs, file, ws, text, next_uuid))
    /\ UNCHANGED <<fs, original_text, tempdir, out_dir, hist, run_vars>>

\* the create Step, which replace_link_with_dir reuses as its first Step
Create(g) ==
    /\ groups[g].kind \in {"create_delete", "replace_link_with_dir"}
    /\ Applied(g, 1, create(fs, groups[g].file, groups[g].text), hist[g].cap)
    /\ UNCHANGED <<groups, original_text, next_uuid, tempdir, out_dir, run_vars>>

Delete(g) ==
    /\ groups[g].kind = "create_delete"
    /\ Applied(g, 2, delete(fs, groups[g].file, groups[g].shallowest_missing_dir),
               hist[g].cap)
    /\ UNCHANGED <<groups, original_text, next_uuid, tempdir, out_dir, run_vars>>

(***************************************************************************)
(* replace_link_with_dir                                                   *)
(***************************************************************************)
\* replace_it(): delete_file.apply_change(); create_dir.apply_change()
replace_it(f, g) ==
    LET deleted == delete(f, groups[g].file, groups[g].shallowest_missing_dir)
    IN IF deleted.raised THEN deleted
       ELSE LET created == create(deleted.fs, BpFile(groups[g].file), BpText)
            IN [fs |-> created.fs, raised |-> created.raised]

\* create_delete_bp(bp_file): create_delete with the canned content
create_delete_bp(f, bp_file, u) ==
    create_delete(f, bp_file, "SYMLINK", [given |-> TRUE, val |-> BpText], u)

replace_link_with_dir(f, p, u) ==
    LET cd == create_delete(f, p, "SYMLINK", [given |-> FALSE, val |-> << >>], u)
        bp == create_delete_bp(f, BpFile(p), cd.next_uuid)
    IN Return([cd.group EXCEPT
                  !.kind = "replace_link_with_dir",
                  !.recipe = "replace_link_with_dir",
                  !.steps = <<"create", "Android.bp instead of", "delete">>,
                  !.verify = <<cd.group.verify[1], bp.group.verify[1], bp.group.verify[2]>>,
                  !.bp_shallowest_missing_dir = bp.group.shallowest_missing_dir],
              bp.next_uuid)

ReplaceLinkWithDir(p) ==
    /\ Called("replace_link_with_dir", replace_link_with_dir(fs, p, next_uuid))
    /\ UNCHANGED <<fs, original_text, tempdir, out_dir, hist, run_vars>>

ReplaceIt(g) ==
    /\ groups[g].kind = "replace_link_with_dir"
    /\ Applied(g, 2, replace_it(fs, g), hist[g].cap)
    /\ UNCHANGED <<groups, original_text, next_uuid, tempdir, out_dir, run_vars>>

\* the delete Step of create_delete_bp(p / "Android.bp")
DeleteDir(g) ==
    /\ groups[g].kind = "replace_link_with_dir"
    /\ Applied(g, 3, delete(fs, BpFile(groups[g].file), groups[g].bp_shallowest_missing_dir),
               hist[g].cap)
    /\ UNCHANGED <<groups, original_text, next_uuid, tempdir, out_dir, run_vars>>

(***************************************************************************)
(* The synthetic workspace and the InWorkspace Verifiers.  The workspace   *)
(* is the part of the filesystem under WsDir; a symbolic link is an entry  *)
(* of kind "link" whose data is the path it points to.                     *)
(***************************************************************************)
LinkEntry(target) == [kind |-> "link", data |-> target]
IsLink(f, p) == Exists(f, p) /\ f[p].kind = "link"

\* cuj.de_src(path): the path relative to the top of the source tree
de_src(p) == SubSeq(p, Len(TopDir) + 1, Len(p))
WsDir == Join(out_dir, "workspace")
\* InWorkspace.ws_counterpart(src_path)
WsCounterpart(p) == WsDir \o de_src(p)
\* Path.with_name(name)
WithName(p, n) == Join(Parent(p), n)

\* the proper ancestors of w that are symbolic links
LinkAncestors(f, w) == {i \in 1..(Len(w) - 1) : IsLink(f, SubSeq(w, 1, i))}
\* Path.exists() of a workspace path: links on the way are followed
WsExists(f, w) ==
    \/ IsLink(f, w) /\ Exists(f, f[w].data)
    \/ ~IsLink(f, w) /\ Exists(f, w)
    \/ \E i \in LinkAncestors(f, w) :
          Exists(f, f[SubSeq(w, 1, i)].data \o SubSeq(w, i + 1, Len(w)))

\* the relationship the workspace counterpart of a source path is in
InWorkspaceOf(f, file) ==
    LET w == WsCounterpart(file)
    IN IF ~WsExists(f, w) THEN "OMISSION"
       ELSE IF IsLink(f, w) THEN "SYMLINK"
       ELSE IF LinkAncestors(f, w) # {} THEN "UNDER_SYMLINK"
       ELSE "NOT_UNDER_SYMLINK"

InWorkspace == {"SYMLINK", "UNDER_SYMLINK", "NOT_UNDER_SYMLINK", "OMISSION"}
BuildTypes == {"SOONG_ONLY", "MIXED_PROD", "MIXED_STAGING"}

(***************************************************************************)
(* content_verfiers and the build-file recipes                             *)
(***************************************************************************)
RECURSIVE Lines(_)
\* iteration over a text file: the lines, each with its newline
Lines(text) ==
    IF text = << >> THEN << >>
    ELSE LET ends == {i \in 1..Len(text) : text[i] = "LF"}
         IN IF ends = {} THEN <<text>>
            ELSE LET i == CHOOSE j \in ends : \A k \in ends : j <= k
                 IN <<SubSeq(text, 1, i)>> \o Lines(SubSeq(text, i + 1, Len(text)))

\* search(): some line of ws_build_file equals content; only called when the
\* file can be opened and read
search(f, ws_build_file, content) ==
    \E i \in 1..Len(Lines(ReadText(f, ws_build_file))) :
        Lines(ReadText(f, ws_build_file))[i] = content

\* content_verfiers without the decorator on does_not_contain
content_verfiersUnskipped(ws_build_file, content) ==
    << [kind |-> "contains", ws |-> "", file |-> ws_build_file, content |-> content,
        skip_for |-> {"SOONG_ONLY"}],
       [kind |-> "does_not_contain", ws |-> "", file |-> ws_build_file,
        content |-> content, skip_for |-> {}] >>
\* (contains, does_not_contain), both decorated with skip_for(SOONG_ONLY)
content_verfiers(ws_build_file, content) ==
    << [kind |-> "contains", ws |-> "", file |-> ws_build_file, content |-> content,
        skip_for |-> {"SOONG_ONLY"}],
       [kind |-> "does_not_contain", ws |-> "", file |-> ws_build_file,
        content |-> content, skip_for |-> {"SOONG_ONLY"}] >>

\* the outcome of a Verifier: whether it raised, and what it logged
Passed(record) == [raised |-> FALSE, logged |-> <<record>>]
Failed == [raised |-> TRUE, logged |-> << >>]

\* InWorkspace.verifier(src_path): the relationship found is the one expected
verifier(f, ws, src_path) ==
    IF InWorkspaceOf(f, src_path) = ws THEN Passed("VERIFIED") ELSE Failed

\* the body of contains(): open() or the read may raise, else search() decides
contains(f, ws_build_file, content) ==
    IF ~CanReadText(f, ws_build_file) THEN Failed
    ELSE IF ~search(f, ws_build_file, content) THEN Failed
    ELSE Passed("VERIFIED")

\* the body of does_not_contain()
does_not_contain(f, ws_build_file, content) ==
    IF ~CanReadText(f, ws_build_file) THEN Failed
    ELSE IF search(f, ws_build_file, content) THEN Failed
    ELSE Passed("VERIFIED")

\* the body of a Verifier, without any skip_for
Unwrapped(f, v) ==
    IF v.kind = "InWorkspace" THEN verifier(f, v.ws, v.file)
    ELSE IF v.kind = "contains" THEN contains(f, v.file, v.content)
    ELSE does_not_contain(f, v.file, v.content)

\* cuj.skip_for(*build_types): under one of them the Verifier logs a skip and
\* does nothing else
RunVerifier(f, bt, v) ==
    IF bt \in v.skip_for THEN Passed("SKIPPED") ELSE Unwrapped(f, v)

RECURSIVE RunSequence(_, _, _)
\* cuj.sequence(*verifiers): one after the other, until one raises
RunSequence(f, bt, vs) ==
    IF vs = << >> THEN [raised |-> FALSE, logged |-> << >>]
    ELSE LET r == RunVerifier(f, bt, Head(vs))
         IN IF r.raised THEN r
            ELSE LET rest == RunSequence(f, bt, Tail(vs))
                 IN [raised |-> rest.raised, logged |-> r.logged \o rest.logged]

\* the merged build file of the workspace package of build_file
WsBuildFile(build_file) == WithName(WsCounterpart(build_file), "BUILD.bazel")

\* the verify of the two Steps of a kept build file with the prover on both
kept_verifyProverOnly(step_verify, merge) ==
    << step_verify[1] \o <<merge[1]>>, step_verify[2] \o <<merge[1]>> >>
\* the verify of the two Steps of a kept build file: cuj.sequence of the
\* Step's own verify and merge_prover, then merge_disprover
kept_verify(step_verify, merge) ==
    << step_verify[1] \o <<merge[1]>>, step_verify[2] \o <<merge[2]>> >>

\* the verify of the two Steps of an unkept build file: merge_disprover twice
unkept_verify(step_verify, merge) ==
    << step_verify[1] \o <<merge[2]>>, step_verify[2] \o <<merge[2]>> >>

modify_revert_kept_build_file(f, build_file, u) ==
    LET content == BogusText(u)
        mr == modify_revert(f, build_file, [given |-> TRUE, val |-> content], u + 1)
        merge == content_verfiers(WsBuildFile(build_file), content)
    IN IF mr.raised THEN Throw(mr.next_uuid)
       ELSE Return([mr.group EXCEPT
                       !.recipe = "modify_revert_kept_build_file",
                       !.verify = kept_verify(mr.group.verify, merge)],
                   mr.next_uuid)

create_delete_kept_build_file(f, build_file, u) ==
    LET content == BogusText(u)
        ws == IF Name(build_file) = "BUILD.bazel" THEN "NOT_UNDER_SYMLINK" ELSE "SYMLINK"
        merge == content_verfiers(WsBuildFile(build_file), content)
        cd == create_delete(f, build_file, ws, [given |-> TRUE, val |-> content], u + 1)
    IN IF Name(build_file) \notin {"BUILD.bazel", "BUILD"} THEN Throw(u + 1)
       ELSE Return([cd.group EXCEPT
                       !.recipe = "create_delete_kept_build_file",
                       !.verify = kept_verify(cd.group.verify, merge)],
                   cd.next_uuid)

create_delete_unkept_build_file(f, build_file, u) ==
    LET content == BogusText(u)
        cd == create_delete(f, build_file, "SYMLINK",
                            [given |-> TRUE, val |-> content], u + 1)
        merge == content_verfiers(WsBuildFile(build_file), content)
    IN Return([cd.group EXCEPT
                  !.recipe = "create_delete_unkept_build_file",
                  !.verify = unkept_verify(cd.group.verify, merge)],
              cd.next_uuid)

ModifyRevertKeptBuildFile(build_file) ==
    /\ Called("modify_revert_kept_build_file",
              modify_revert_kept_build_file(fs, build_file, next_uuid))
    /\ UNCHANGED <<fs, original_text, tempdir, out_dir, hist, run_vars>>

CreateDeleteKeptBuildFile(build_file) ==
    /\ Called("create_delete_kept_build_file",
              create_delete_kept_build_file(fs, build_file, next_uuid))
    /\ UNCHANGED <<fs, original_text, tempdir, out_dir, hist, run_vars>>

CreateDeleteUnkeptBuildFile(build_file) ==
    /\ Called("create_delete_unkept_build_file",
              create_delete_unkept_build_file(fs, build_file, next_uuid))
    /\ UNCHANGED <<fs, original_text, tempdir, out_dir, hist, run_vars>>

\* CujStep.verify of Step s of the Group in slot g
Verify(g, s) ==
    /\ s \in 1..Len(groups[g].steps)
    /\ LET r == RunSequence(fs, build_type, groups[g].verify[s])
       IN /\ last' = [op |-> "verify", g |-> g, step |-> s, raised |-> r.raised]
          /\ logged' = r.logged
    /\ UNCHANGED <<fs, groups, original_text, next_uuid, tempdir, out_dir, hist,
                   build_type, log_dir, cache, catalog>>

(***************************************************************************)
(* finder.confirm(root, *patterns).  A pattern is a sequence of path       *)
(* components: a name, "*" (any one name), "**" (any number of             *)
(* directories) or "BUILD*" (a name that begins with BUILD); neg is the    *)
(* leading "!".                                                            *)
(***************************************************************************)
BuildNames == {"BUILD", "BUILD.bazel"}

RECURSIVE GlobMatch(_, _)
GlobMatch(rel, glob) ==
    IF glob = << >> THEN rel = << >>
    ELSE IF Head(glob) = "**"
    THEN \/ GlobMatch(rel, Tail(glob))
         \/ rel # << >> /\ GlobMatch(Tail(rel), glob)
    ELSE /\ rel # << >>
         /\ \/ Head(glob) = "*"
            \/ Head(glob) = "BUILD*" /\ Head(rel) \in BuildNames
            \/ Head(glob) = Head(rel)
         /\ GlobMatch(Tail(rel), Tail(glob))

Found(f, root, glob) ==
    \E q \in DOMAIN f :
        /\ IsRelativeTo(q, root)
        /\ GlobMatch(SubSeq(q, Len(root) + 1, Len(q)), glob)

Must(glob) == [neg |-> FALSE, glob |-> glob]
MustNot(glob) == [neg |-> TRUE, glob |-> glob]

\* TRUE when every pattern's expectation holds; FALSE is the fatal error
confirm(f, root, patterns) ==
    \A i \in 1..Len(patterns) : Found(f, root, patterns[i].glob) # patterns[i].neg

(***************************************************************************)
(* get_cujgroups: the catalog.                                             *)
(***************************************************************************)
\* cuj.src(id): the path of a logical id, given as its sequence of names
src(id) == TopDir \o id

\* the canned regex edits; n is the literal random.randint(0, 1000) drew.  The
\* fixed text of a replacement is left out, and ".*" stands for itself
modify_private_method(f, file, n, u) ==
    regex_modify_revert(f, file,
        [bol |-> FALSE, lit |-> <<"private static boolean", ".*", "{">>, eol |-> FALSE],
        [keep |-> TRUE, text |-> <<n>>], "modify_private_method", u)
add_private_field(f, file, n, u) ==
    regex_modify_revert(f, file,
        [bol |-> TRUE, lit |-> <<"}">>, eol |-> TRUE],
        [keep |-> FALSE, text |-> <<n, "LF", "}">>], "add_private_field", u)
add_public_api(f, file, n, u) ==
    regex_modify_revert(f, file,
        [bol |-> FALSE, lit |-> <<"}">>, eol |-> TRUE],
        [keep |-> FALSE, text |-> <<n, "LF", "}">>], "add_public_api", u)
modify_resource(f, file, n, u) ==
    regex_modify_revert(f, file,
        [bol |-> FALSE, lit |-> <<">", "0", "<">>, eol |-> FALSE],
        [keep |-> FALSE, text |-> <<">", n, "<">>], "modify_resource", u)
add_resource(f, file, n, u) ==
    regex_modify_revert(f, file,
        [bol |-> FALSE, lit |-> <<"</resources>">>, eol |-> FALSE],
        [keep |-> FALSE, text |-> <<n, "LF", "</resources>">>], "add_resource", u)

\* clone.get_cuj_group(...): a Group of the bulk-generation collaborator
clone_get_cuj_group(description, u) ==
    Return([NoGroup EXCEPT !.kind = "clone", !.recipe = description,
                           !.steps = <<"clone">>, !.verify = <<NoVerify>>], u)

\* CujGroup("", [CujStep("clean", clean)]) and CujGroup("", Warmup.steps)
CleanGroup ==
    [NoGroup EXCEPT !.kind = "clean", !.recipe = "get_cujgroups",
                    !.steps = <<"clean">>, !.verify = <<NoVerify>>]
WarmupGroup ==
    [NoGroup EXCEPT !.kind = "warmup", !.recipe = "get_cujgroups",
                    !.steps = <<"no change">>, !.verify = <<NoVerify>>]

pkg == src(<<"art">>)
pkg_free == src(<<"bionic", "docs">>)
ancestor == src(<<"bionic">>)
leaf_pkg_free == src(<<"bionic", "build">>)
kept == src(<<"build", "bazel">>)
unkept == src(<<"bionic", "libm">>)
non_empty_dir == <<"*", "*">>

Settings == src(<<"frameworks", "base", "core", "java", "android", "provider",
                  "Settings.java">>)
ActivityManagerService ==
    src(<<"frameworks", "base", "services", "core", "java", "com", "android",
          "server", "am", "ActivityManagerService.java">>)
ConfigXml == src(<<"frameworks", "base", "core", "res", "res", "values", "config.xml">>)

\* one call made while the catalog is assembled
Entry(call, file, ws) == [call |-> call, file |-> file, ws |-> ws, patterns |-> << >>]
Confirm(root, patterns) ==
    [call |-> "confirm", file |-> root, ws |-> "", patterns |-> patterns]

\* the outcome of one call; n is the random literal it draws, if any
Call(e, f, n, u) ==
    IF e.call = "confirm"
    THEN IF confirm(f, e.file, e.patterns) THEN Return(NoGroup, u) ELSE Throw(u)
    ELSE IF e.call = "modify_revert"
    THEN modify_revert(f, e.file, [given |-> FALSE, val |-> << >>], u)
    ELSE IF e.call = "create_delete_bp" THEN create_delete_bp(f, e.file, u)
    ELSE IF e.call = "create_delete"
    THEN create_delete(f, e.file, e.ws, [given |-> FALSE, val |-> << >>], u)
    ELSE IF e.call = "delete_restore" THEN delete_restore(e.file, e.ws, u)
    ELSE IF e.call = "modify_private_method" THEN modify_private_method(f, e.file, n, u)
    ELSE IF e.call = "add_private_field" THEN add_private_field(f, e.file, n, u)
    ELSE IF e.call = "add_public_api" THEN add_public_api(f, e.file, n, u)
    ELSE IF e.call = "modify_resource" THEN modify_resource(f, e.file, n, u)
    ELSE IF e.call = "add_resource" THEN add_resource(f, e.file, n, u)
    ELSE IF e.call = "create_delete_kept_build_file"
    THEN create_delete_kept_build_file(f, e.file, u)
    ELSE IF e.call = "create_delete_unkept_build_file"
    THEN create_delete_unkept_build_file(f, e.file, u)
    ELSE IF e.call = "modify_revert_kept_build_file"
    THEN modify_revert_kept_build_file(f, e.file, u)
    ELSE IF e.call = "replace_link_with_dir" THEN replace_link_with_dir(f, e.file, u)
    ELSE IF e.call = "clean" THEN Return(CleanGroup, u)
    ELSE IF e.call = "warmup" THEN Return(WarmupGroup, u)
    ELSE clone_get_cuj_group(e.ws, u)

\* the calls that draw a random literal
Draws(e) ==
    e.call \in {"modify_private_method", "add_private_field", "add_public_api",
                "modify_resource", "add_resource"}

\* the outcome of a list of calls made in order: the first to raise ends it,
\* and then no Group at all comes out.  draw is the sequence of the random
\* literals still to be drawn
Assembled(gs, u) == [raised |-> FALSE, groups |-> gs, next_uuid |-> u]
Aborted(u) == [raised |-> TRUE, groups |-> << >>, next_uuid |-> u]

RECURSIVE Assemble(_, _, _, _)
Assemble(calls, f, draw, u) ==
    IF calls = << >> THEN Assembled(<< >>, u)
    ELSE LET e == Head(calls)
             r == Call(e, f, IF Draws(e) THEN Head(draw) ELSE "", u)
         IN IF r.raised THEN Aborted(r.next_uuid)
            ELSE LET rest == Assemble(Tail(calls), f,
                                      IF Draws(e) THEN Tail(draw) ELSE draw,
                                      r.next_uuid)
                 IN IF rest.raised THEN rest
                    ELSE Assembled((IF e.call = "confirm" THEN << >> ELSE <<r.group>>)
                                       \o rest.groups,
                                   rest.next_uuid)

\* the calls made although one of those of prev raised
ThenRegardless(prev, calls, f, draw) ==
    Assemble(calls, f, draw, prev.next_uuid)
\* a list of calls made after those of prev
Then(prev, calls, f, draw) ==
    IF prev.raised THEN prev ELSE Assemble(calls, f, draw, prev.next_uuid)

confirmations ==
    << Confirm(pkg, <<Must(non_empty_dir), Must(<<"Android.bp">>), MustNot(<<"BUILD*">>)>>),
       Confirm(pkg_free, <<Must(non_empty_dir), MustNot(<<"**", "Android.bp">>),
                           MustNot(<<"**", "BUILD*">>)>>),
       Confirm(ancestor, <<Must(<<"**", "Android.bp">>), MustNot(<<"Android.bp">>),
                           MustNot(<<"BUILD*">>)>>),
       Confirm(leaf_pkg_free, <<MustNot(non_empty_dir), MustNot(<<"**", "Android.bp">>),
                                MustNot(<<"**", "BUILD*">>)>>) >>

android_bp_cujs ==
    << Entry("modify_revert", src(<<"Android.bp">>), ""),
       Entry("create_delete_bp", Join(ancestor, "Android.bp"), ""),
       Entry("create_delete_bp", Join(pkg_free, "Android.bp"), ""),
       Entry("create_delete_bp", Join(leaf_pkg_free, "Android.bp"), "") >>

mixed_build_launch_cujs ==
    << Entry("modify_revert", src(<<"bionic", "libc", "tzcode", "asctime.c">>), ""),
       Entry("modify_revert", src(<<"bionic", "libc", "stdio", "stdio.cpp">>), ""),
       Entry("modify_revert",
             src(<<"packages", "modules", "adb", "daemon", "main.cpp">>), ""),
       Entry("modify_revert",
             src(<<"frameworks", "base", "core", "java", "android", "view",
                   "View.java">>), ""),
       Entry("modify_revert", Settings, ""),
       Entry("modify_private_method", Settings, ""),
       Entry("add_private_field", Settings, ""),
       Entry("add_public_api", Settings, ""),
       Entry("modify_private_method", ActivityManagerService, ""),
       Entry("add_private_field", ActivityManagerService, ""),
       Entry("add_public_api", ActivityManagerService, ""),
       Entry("modify_resource", ConfigXml, ""),
       Entry("add_resource", ConfigXml, "") >>

unreferenced_file_cujs ==
    << Entry("create_delete", Join(ancestor, "unreferenced.txt"), "SYMLINK"),
       Entry("create_delete", Join(pkg, "unreferenced.txt"), "SYMLINK"),
       Entry("create_delete", Join(pkg_free, "unreferenced.txt"), "UNDER_SYMLINK"),
       Entry("create_delete", Join(leaf_pkg_free, "unreferenced.txt"), "UNDER_SYMLINK") >>

cloning_cujs ==
    << Entry("clone", NoPath, "genrules"), Entry("clone", NoPath, "cc_"),
       Entry("clone", NoPath, "adbd"), Entry("clone", NoPath, "libNN"),
       Entry("clone", NoPath, "adbd&libNN") >>

\* the two Groups and the recipe calls of the returned list that come before
\* the lists built above
first_cujs ==
    << Entry("clean", NoPath, ""), Entry("warmup", NoPath, "") >>
globbed_and_deleted ==
    << Entry("create_delete", src(<<"bionic", "libc", "tzcode", "globbed.c">>),
             "UNDER_SYMLINK"),
       Entry("delete_restore", src(<<"bionic", "libc", "version_script.txt">>), "SYMLINK"),
       Entry("delete_restore", src(<<"external", "cbor-java", "AndroidManifest.xml">>),
             "SYMLINK") >>

_unkept_build_cujs ==
    << Confirm(unkept, <<Must(<<"Android.bp">>), MustNot(<<"BUILD">>),
                         MustNot(<<"BUILD.bazel">>)>>),
       Entry("create_delete_unkept_build_file", Join(unkept, "BUILD"), ""),
       Entry("create_delete_unkept_build_file", Join(unkept, "BUILD.bazel"), ""),
       Entry("create_delete", unkept \o <<"bogus-unkept", "BUILD">>, "OMISSION"),
       Entry("create_delete", unkept \o <<"bogus-unkept", "BUILD.bazel">>, "OMISSION"),
       Entry("create_delete", unkept \o <<"BUILD", "unkept-dir">>, "SYMLINK") >>

_kept_build_cujs ==
    << Confirm(kept, <<Must(<<"compliance", "Android.bp">>),
                       MustNot(<<"compliance", "BUILD">>),
                       MustNot(<<"compliance", "BUILD.bazel">>),
                       Must(<<"rules", "python", "BUILD">>)>>),
       Entry("create_delete_kept_build_file", kept \o <<"compliance", "BUILD">>, ""),
       Entry("create_delete_kept_build_file", kept \o <<"compliance", "BUILD.bazel">>, ""),
       Entry("create_delete", kept \o <<"BUILD", "kept-dir">>, "SYMLINK"),
       Entry("modify_revert_kept_build_file", kept \o <<"rules", "python", "BUILD">>, "") >>

last_cujs ==
    << Entry("replace_link_with_dir", Join(pkg, "bogus.txt"), "") >>

\* the random literals the catalog draws: one for each canned regex edit
CatalogDraws == Len(SelectSeq(mixed_build_launch_cujs, Draws))

\* the statements of get_cujgroups(), in the order Python evaluates them: the
\* lists bound to names first, then the elements of the returned list
Statements ==
    << confirmations, android_bp_cujs, mixed_build_launch_cujs, unreferenced_file_cujs,
       cloning_cujs, first_cujs, globbed_and_deleted, _unkept_build_cujs,
       _kept_build_cujs, last_cujs >>

RECURSIVE Evaluate(_, _, _, _)
\* the outcome of each statement, each evaluated after the one before it
Evaluate(statements, f, draw, prev) ==
    IF statements = << >> THEN << >>
    ELSE LET r == Then(prev, Head(statements), f, draw)
         IN <<r>> \o Evaluate(Tail(statements), f, draw, r)

\* the list returned, which is in another order than the evaluation
ListOf(done) ==
    IF done[Len(done)].raised THEN done[Len(done)]
    ELSE Assembled(done[6].groups \o done[5].groups \o done[7].groups
                       \o done[4].groups \o done[3].groups \o done[2].groups
                       \o done[8].groups \o done[9].groups \o done[10].groups,
                   done[Len(done)].next_uuid)

\* the body of get_cujgroups()
get_cujgroups(f, draw, u) ==
    ListOf(Evaluate(Statements, f, draw, Assembled(<< >>, u)))

(***************************************************************************)
(* Specification of the recipes that edit one existing file:               *)
(* modify_revert, regex_modify_revert and delete_restore on src/d/a.       *)
(***************************************************************************)
TextFile == <<"src", "d", "a">>
Tmp == <<"tmp">>
Out == <<"src", "out">>

\* what the file holds before any Step runs
InitContents ==
    { <<"}", "LF">>, <<"}", "CR", "LF">>, <<"x", "}", "LF", "}">> }

\* caller-supplied marker texts, beside None
MarkerTexts == { <<"eacute", "LF">> }
TextArgs == {[given |-> FALSE, val |-> << >>]}
            \cup {[given |-> TRUE, val |-> t] : t \in MarkerTexts}

\* random.randint(0, 1000), as one character
RandInts == {"0", "1"}

\* add_private_field and add_public_api
CannedEdits ==
    {[modify_type |-> "add_private_field",
      pattern |-> [bol |-> TRUE, lit |-> <<"}">>, eol |-> TRUE],
      replacement |-> [keep |-> FALSE, text |-> <<n, "LF", "}">>]] : n \in RandInts}
    \cup
    {[modify_type |-> "add_public_api",
      pattern |-> [bol |-> FALSE, lit |-> <<"}">>, eol |-> TRUE],
      replacement |-> [keep |-> FALSE, text |-> <<n, "LF", "}">>]] : n \in RandInts}

BaseTree(t) ==
    [p \in {Root, TopDir, <<"src", "d">>} \cup {SubSeq(t, 1, i) : i \in 1..Len(t)}
        |-> DirEntry]

InitCommon ==
    /\ groups = [g \in Slots |-> NoGroup]
    /\ original_text = [c \in Slots |-> Unset]
    /\ next_uuid = 1
    /\ last = [op |-> "init", g |-> 0, step |-> 0, raised |-> FALSE]
    /\ hist = [g \in Slots |-> NoHist]

\* nothing is cached, returned or logged before the first call
NoCatalog == [set |-> FALSE, val |-> << >>]
Logs == <<"logs">>

\* a run outside SOONG_ONLY that logs outside the source tree
InitRun ==
    /\ build_type = "MIXED_PROD"
    /\ log_dir = Logs
    /\ cache = NoCatalog
    /\ catalog = NoCatalog
    /\ logged = << >>

Init ==
    /\ InitCommon
    /\ InitRun
    /\ tempdir = Tmp
    /\ out_dir = Out
    /\ \E c \in InitContents : fs = Put(BaseTree(Tmp), TextFile, FileEntry(c))

Next ==
    \/ \E t \in TextArgs : ModifyRevert(TextFile, t)
    \/ \E e \in CannedEdits :
          RegexModifyRevert(TextFile, e.pattern, e.replacement, e.modify_type)
    \/ DeleteRestore(TextFile, "SYMLINK")
    \/ \E g \in Slots : AddLine(g)
    \/ \E g \in Slots : Revert(g)
    \/ \E g \in Slots : RegexModify(g)
    \/ \E g \in Slots : RegexRevert(g)
    \/ \E g \in Slots : MoveToTempdir(g)
    \/ \E g \in Slots : Restore(g)

Spec == Init /\ [][Next]_vars

(***************************************************************************)
(* CujStep.apply_change of Step s of the Group in slot g.                  *)
(***************************************************************************)
ApplyChange(g, s) ==
    \/ s = 1 /\ (AddLine(g) \/ RegexModify(g) \/ MoveToTempdir(g) \/ Create(g))
    \/ s = 2 /\ (Revert(g) \/ RegexRevert(g) \/ Restore(g) \/ Delete(g) \/ ReplaceIt(g))
    \/ s = 3 /\ DeleteDir(g)

\* the recipes whose Group is a Step and its inverse
PairedRecipes == {"modify_revert", "regex_modify_revert", "create_delete", "delete_restore"}

\* the file-editing recipes, whose precondition is that the file exists
EditsFile(g) == groups[g].kind \in {"modify_revert", "regex_modify_revert", "delete_restore"}

\* the tree f satisfies the precondition the recipe of slot g checked
CreatesFile(g) == groups[g].kind \in {"create_delete", "replace_link_with_dir"}

\* the missing ancestors of the Group's file in f are those its recipe found
CaptureFresh(g, f) ==
    ShallowestMissingDir(f, groups[g].file) = groups[g].shallowest_missing_dir

Precondition(g, f) ==
    /\ EditsFile(g) => IsFile(f, groups[g].file) /\ ValidUtf8(f[groups[g].file].data)
    /\ CreatesFile(g) => ~Exists(f, groups[g].file) /\ CaptureFresh(g, f)

\* Step s of slot g is the next Step of a run of the whole Group, in order and
\* uninterrupted, that began in a tree satisfying the precondition
InRun(g, s) ==
    \/ s = 1 /\ Precondition(g, fs)
    \/ s > 1 /\ hist[g].pos = s - 1 /\ Precondition(g, hist[g].start)
RunStart(g, s) == IF s = 1 THEN fs ELSE hist[g].start

\* the tracked filesystem: the part of f under the source tree
Tracked(f) == [p \in {q \in DOMAIN f : IsRelativeTo(q, TopDir)} |-> f[p]]

(***************************************************************************)
(* C1: modify then revert of a modify_revert Group leaves the file         *)
(* byte-identical to what it held before modify, for every content and     *)
(* every marker text.                                                      *)
(***************************************************************************)
C1_RevertRestoresBytes ==
    \A g \in Slots :
        (/\ groups[g].kind = "modify_revert"
         /\ hist[g].pos = 2
         /\ IsFile(hist[g].start, groups[g].file))
        => /\ IsFile(fs, groups[g].file)
           /\ fs[groups[g].file].data = hist[g].start[groups[g].file].data

(***************************************************************************)
(* C2: in a regex_modify_revert Group a second modify with no revert in    *)
(* between fails and leaves the captured original text as it was.          *)
(***************************************************************************)
C2_SecondModifyFails ==
    [][\A g \in Slots :
          (RegexModify(g) /\ hist[g].prev = 1)
          => /\ last'.raised
             /\ original_text'[Cell(g)] = original_text[Cell(g)]]_vars

(***************************************************************************)
(* C5: applying a Step again, with no apply_change of its paired inverse   *)
(* in between, signals an error and does not change the filesystem.        *)
(***************************************************************************)
C5_SecondApplyIsError ==
    [][\A g \in Slots : \A s \in 1..2 :
          (/\ groups[g].kind \in PairedRecipes
           /\ ApplyChange(g, s)
           /\ hist[g].prev = s)
          => (last'.raised /\ fs' = fs)]_vars

(***************************************************************************)
(* C6: every complete in-order run of a Group, from a tree satisfying the  *)
(* recipe's precondition, succeeds at every Step and ends in the tree it   *)
(* began in; so does every later run of the same Group.                    *)
(***************************************************************************)
C6_RunIsNetZero ==
    [][\A g \in Slots : \A s \in 1..Len(groups[g].steps) :
          (ApplyChange(g, s) /\ InRun(g, s))
          => /\ ~last'.raised
             /\ s = Len(groups[g].steps) => Tracked(fs') = Tracked(RunStart(g, s))]_vars

(***************************************************************************)
(* C8: modify_revert and regex_modify_revert raise and return no Group     *)
(* when the file does not exist, and their modify Step, run when the file  *)
(* is absent, fails without creating or writing the file.                  *)
(***************************************************************************)
C8_MissingFileIsFatal ==
    [][/\ \A t \in TextArgs :
            (ModifyRevert(TextFile, t) /\ ~Exists(fs, TextFile))
            => (last'.raised /\ groups' = groups)
       /\ \A e \in CannedEdits :
            (/\ RegexModifyRevert(TextFile, e.pattern, e.replacement, e.modify_type)
             /\ ~Exists(fs, TextFile))
            => (last'.raised /\ groups' = groups)
       /\ \A g \in Slots :
            ((AddLine(g) \/ RegexModify(g)) /\ ~Exists(fs, groups[g].file))
            => (last'.raised /\ fs' = fs)]_vars

(***************************************************************************)
(* Specification of delete_restore under every placement of the temporary  *)
(* directory and the build output directory.                               *)
(***************************************************************************)
TempDirs == { <<"tmp">>, <<"src", "tmp">>, <<"out", "tmp">>, <<"src">> }
OutDirs == { <<"src", "out">>, <<"out">> }

InitTree(t, c) == Put(BaseTree(t), TextFile, FileEntry(c))

InitTemp ==
    /\ InitCommon
    /\ InitRun
    /\ tempdir \in TempDirs
    /\ out_dir \in OutDirs
    /\ \E c \in InitContents : fs = InitTree(tempdir, c)

NextTemp ==
    \/ DeleteRestore(TextFile, "SYMLINK")
    \/ \E g \in Slots : MoveToTempdir(g)
    \/ \E g \in Slots : Restore(g)

SpecTemp == InitTemp /\ [][NextTemp]_vars

\* the temporary directory lies under the source tree or under the output directory
TempdirInsideTrees == IsRelativeTo(tempdir, TopDir) \/ IsRelativeTo(tempdir, out_dir)

(***************************************************************************)
(* C9: with the temporary directory under the source tree or under the     *)
(* output directory, delete_restore raises, returns no Group and moves no  *)
(* file; the backup path of every delete_restore Group is outside both.    *)
(***************************************************************************)
C9_TempdirOutsideTrees ==
    /\ TempdirInsideTrees =>
          /\ \A g \in Slots : groups[g].kind # "delete_restore"
          /\ last.op = "delete_restore" => last.raised
          /\ \E c \in InitContents : fs = InitTree(tempdir, c)
    /\ \A g \in Slots :
          groups[g].kind = "delete_restore" =>
              /\ ~IsRelativeTo(groups[g].copied, TopDir)
              /\ ~IsRelativeTo(groups[g].copied, out_dir)

\* delete_restore has just raised for a temporary directory under the output
\* directory that is not under the source tree
C9_Witness ==
    /\ last.op = "delete_restore"
    /\ last.raised
    /\ IsRelativeTo(tempdir, out_dir)
    /\ ~IsRelativeTo(tempdir, TopDir)

(***************************************************************************)
(* Specification of regex_modify_revert Groups built on one file: the two  *)
(* canned edits, each with one draw of its random literal.                 *)
(***************************************************************************)
RegexEdits == {e \in CannedEdits : e.replacement.text[1] = "0"}

NextRegex ==
    \/ \E e \in RegexEdits :
          RegexModifyRevert(TextFile, e.pattern, e.replacement, e.modify_type)
    \/ \E g \in Slots : RegexModify(g)
    \/ \E g \in Slots : RegexRevert(g)

SpecRegex == Init /\ [][NextRegex]_vars

(***************************************************************************)
(* C10: the revert Step of a regex_modify_revert Group writes back the     *)
(* text its own Group's modify captured, never the text another Group on   *)
(* the same file captured.                                                 *)
(***************************************************************************)
C10_RevertWritesOwnCapture ==
    \A g \in Slots :
        (/\ groups[g].kind = "regex_modify_revert"
         /\ last = [op |-> "apply_change", g |-> g, step |-> 2, raised |-> FALSE])
        => /\ hist[g].cap.set
           /\ IsFile(fs, groups[g].file)
           /\ fs[groups[g].file].data = Encode(hist[g].cap.val)

\* two Groups on the same file have both captured, different texts, and the
\* first has just reverted
C10_Witness ==
    /\ groups[1].kind = "regex_modify_revert"
    /\ groups[2].kind = "regex_modify_revert"
    /\ groups[1].file = groups[2].file
    /\ hist[1].cap.set
    /\ hist[2].cap.set
    /\ hist[1].cap.val # hist[2].cap.val
    /\ last = [op |-> "apply_change", g |-> 1, step |-> 2, raised |-> FALSE]

(***************************************************************************)
(* Specification of the recipes that create files: create_delete and       *)
(* replace_link_with_dir, in and beside an existing directory src/d and a  *)
(* missing directory src/n.                                                *)
(***************************************************************************)
CreateTargets ==
    { TextFile, <<"src", "d", "new">>, <<"src", "n", "x">>, <<"src", "n", "m", "z">> }
LinkTargets == { <<"src", "d", "p">>, <<"src", "n", "p">> }
NoText == [given |-> FALSE, val |-> << >>]

NextTree ==
    \/ \E file \in CreateTargets : CreateDelete(file, "SYMLINK", NoText)
    \/ \E p \in LinkTargets : ReplaceLinkWithDir(p)
    \/ \E g \in Slots : Create(g)
    \/ \E g \in Slots : Delete(g)
    \/ \E g \in Slots : ReplaceIt(g)
    \/ \E g \in Slots : DeleteDir(g)

SpecTree == Init /\ [][NextTree]_vars

(***************************************************************************)
(* C3: whenever the create Step of a create_delete Group succeeds, create  *)
(* then delete leaves the whole tree exactly as it was just before create. *)
(***************************************************************************)
C3_DeleteRestoresTree ==
    \A g \in Slots :
        (groups[g].kind = "create_delete" /\ hist[g].pos = 2) => fs = hist[g].start

(***************************************************************************)
(* C4: the create Step raises whenever its target exists when it runs, and *)
(* then leaves the existing content and the tree unchanged.                *)
(***************************************************************************)
C4_CreateRefusesExisting ==
    [][\A g \in Slots :
          (/\ groups[g].kind = "create_delete"
           /\ Create(g)
           /\ Exists(fs, groups[g].file))
          => (last'.raised /\ fs' = fs)]_vars

\* create has just raised on a target that is an existing regular file
C4_Witness ==
    \E g \in Slots :
        /\ groups[g].kind = "create_delete"
        /\ last = [op |-> "apply_change", g |-> g, step |-> 1, raised |-> TRUE]
        /\ IsFile(fs, groups[g].file)

(***************************************************************************)
(* C7: a replace_link_with_dir(p) Group has three Steps.  After the first  *)
(* p is a regular file; after the second, one Step, p is a directory that  *)
(* holds Android.bp; after the third p does not exist and the tree is as   *)
(* it was before the first Step.                                           *)
(***************************************************************************)
C7_ReplaceLinkWithDirSteps ==
    \A g \in Slots :
        groups[g].kind = "replace_link_with_dir" =>
            LET p == groups[g].file
            IN /\ Len(groups[g].steps) = 3
               /\ hist[g].pos = 1 => IsFile(fs, p)
               /\ hist[g].pos = 2 =>
                     /\ IsDir(fs, p)
                     /\ Children(fs, p) = {BpFile(p)}
                     /\ IsFile(fs, BpFile(p))
               /\ hist[g].pos = 3 =>
                     /\ ~Exists(fs, p)
                     /\ fs = hist[g].start

(***************************************************************************)
(* Specification of the catalog: get_cujgroups() is called, again and      *)
(* again, in source trees that do or do not meet what it confirms, and the *)
(* caller runs the clean Step and the Steps of the Groups chosen to run.   *)
(***************************************************************************)
\* the sequences of literals random.randint() may draw while the catalog is
\* assembled: all alike, or alternating
Drawings ==
    {[i \in 1..CatalogDraws |-> n] : n \in RandInts}
    \cup {[i \in 1..CatalogDraws |-> IF i % 2 = 1 THEN "0" ELSE "1"]}

\* every call after one that returned gets the memo of functools.cache
GetCujgroupsUncached ==
    \E draw \in Drawings :
        LET r == get_cujgroups(fs, draw, next_uuid)
        IN /\ r.next_uuid # next_uuid => next_uuid <= MaxUuid
           /\ next_uuid' = r.next_uuid
           /\ last' = [op |-> "get_cujgroups", g |-> 0, step |-> 0, raised |-> r.raised]
           /\ catalog' = IF r.raised THEN NoCatalog ELSE [set |-> TRUE, val |-> r.groups]
           /\ cache' = IF r.raised THEN cache ELSE [set |-> TRUE, val |-> r.groups]
           /\ UNCHANGED <<fs, groups, original_text, tempdir, out_dir, hist,
                          build_type, log_dir, logged>>
GetCujgroups ==
    IF cache.set
    THEN /\ catalog' = cache
         /\ last' = [op |-> "get_cujgroups", g |-> 0, step |-> 0, raised |-> FALSE]
         /\ UNCHANGED <<fs, groups, original_text, next_uuid, tempdir, out_dir, hist,
                        build_type, log_dir, cache, logged>>
    ELSE GetCujgroupsUncached

\* shutil.rmtree(path)
rmtree(f, path) == IF IsDir(f, path) THEN Ok(RemoveTree(f, path)) ELSE Raise(f)

\* the closure clean() without its check of the log directory
cleanUnchecked(f) ==
    IF Exists(f, out_dir) THEN rmtree(f, out_dir) ELSE Ok(f)
\* the closure clean()
clean(f) ==
    IF IsRelativeTo(log_dir, TopDir) THEN Raise(f)
    ELSE IF Exists(f, out_dir) THEN rmtree(f, out_dir)
    ELSE Ok(f)

\* the caller runs a Step of a Group of the list it was given
Ran(op, s, r) ==
    /\ fs' = r.fs
    /\ last' = [op |-> op, g |-> 0, step |-> s, raised |-> r.raised]
    /\ UNCHANGED <<groups, original_text, next_uuid, tempdir, out_dir, hist, run_vars>>

\* apply_change of the clean Step, the only Step of the first Group
Clean ==
    /\ catalog.set
    /\ catalog.val[1].kind = "clean"
    /\ Ran("clean", 1, clean(fs))

\* the Groups chosen to run, by the file they create
ChosenFiles == { Join(ancestor, "Android.bp"), Join(unkept, "BUILD") }

\* apply_change of Step s of the i-th Group of the list, a chosen one
RunChosen(i, s) ==
    /\ catalog.set
    /\ i \in 1..Len(catalog.val)
    /\ catalog.val[i].kind = "create_delete"
    /\ catalog.val[i].file \in ChosenFiles
    /\ s \in 1..2
    /\ LET grp == catalog.val[i]
       IN Ran("apply_change", s,
              IF s = 1 THEN create(fs, grp.file, grp.text)
              ELSE delete(fs, grp.file, grp.shallowest_missing_dir))

\* the files of a source tree the catalog can be assembled in
CatalogFiles ==
    { src(<<"Android.bp">>),
      Join(pkg, "Android.bp"), pkg \o <<"build", "art.go">>,
      pkg_free \o <<"images", "a.png">>,
      ancestor \o <<"libc", "Android.bp">>,
      ancestor \o <<"libc", "tzcode", "asctime.c">>,
      ancestor \o <<"libc", "stdio", "stdio.cpp">>,
      ancestor \o <<"libc", "version_script.txt">>,
      Join(leaf_pkg_free, "run-on-host.sh"),
      Join(unkept, "Android.bp"),
      src(<<"packages", "modules", "adb", "daemon", "main.cpp">>),
      src(<<"frameworks", "base", "core", "java", "android", "view", "View.java">>),
      Settings, ActivityManagerService, ConfigXml,
      src(<<"external", "cbor-java", "AndroidManifest.xml">>),
      kept \o <<"compliance", "Android.bp">>,
      kept \o <<"rules", "python", "BUILD">> }

\* the tree that holds the given files, and the given directories
TreeOf(files, dirs) ==
    LET made == UNION {{SubSeq(p, 1, i) : i \in 0..(Len(p) - 1)} : p \in files}
                \cup UNION {{SubSeq(d, 1, i) : i \in 0..Len(d)} : d \in dirs}
    IN [p \in made \cup files |->
           IF p \in made THEN DirEntry ELSE FileEntry(<<"}", "LF">>)]

\* a file of the tree that is missing, or a file that should not be there
Missing ==
    { src(<<"Android.bp">>), Join(pkg, "Android.bp"), Settings, ConfigXml,
      Join(unkept, "Android.bp"), kept \o <<"rules", "python", "BUILD">>,
      ancestor \o <<"libc", "version_script.txt">> }
Unexpected ==
    { Join(ancestor, "Android.bp"), Join(unkept, "BUILD"),
      kept \o <<"compliance", "BUILD.bazel">>,
      ancestor \o <<"libc", "tzcode", "globbed.c">> }
CatalogFileSets ==
    {CatalogFiles} \cup {CatalogFiles \ {p} : p \in Missing}
                   \cup {CatalogFiles \cup {p} : p \in Unexpected}

LogDirs == { Logs, <<"src", "logs">>, <<"out", "logs">> }
OutDirMade == {TRUE, FALSE}

InitCatalog ==
    /\ InitCommon
    /\ build_type = "MIXED_PROD"
    /\ log_dir \in LogDirs
    /\ cache = NoCatalog
    /\ catalog = NoCatalog
    /\ logged = << >>
    /\ tempdir \in {Tmp, <<"out", "tmp">>}
    /\ out_dir \in OutDirs
    /\ \E files \in CatalogFileSets : \E made \in OutDirMade :
          fs = TreeOf(files, {tempdir, TopDir} \cup (IF made THEN {out_dir} ELSE {}))

NextCatalog ==
    \/ GetCujgroups
    \/ Clean
    \/ \E i \in 1..Len(catalog.val) : \E s \in 1..2 : RunChosen(i, s)

SpecCatalog == InitCatalog /\ [][NextCatalog]_vars

\* the calls made while the catalog is assembled
CatalogCalls ==
    confirmations \o android_bp_cujs \o mixed_build_launch_cujs \o unreferenced_file_cujs
        \o cloning_cujs \o first_cujs \o globbed_and_deleted \o _unkept_build_cujs
        \o _kept_build_cujs \o last_cujs

\* the check a call makes before it returns a Group fails in tree f: a
\* structural confirmation, the existence of the file to edit, the place of the
\* temporary directory, the name of a kept build file
CheckFails(e, f) ==
    \/ e.call = "confirm"
       /\ \E i \in 1..Len(e.patterns) : Found(f, e.file, e.patterns[i].glob) = e.patterns[i].neg
    \/ e.call \in {"modify_revert", "modify_revert_kept_build_file"} \cup
                  {"modify_private_method", "add_private_field", "add_public_api",
                   "modify_resource", "add_resource"}
       /\ e.file \notin DOMAIN f
    \/ e.call = "delete_restore"
       /\ (IsRelativeTo(tempdir, TopDir) \/ IsRelativeTo(tempdir, out_dir))
    \/ e.call = "create_delete_kept_build_file"
       /\ Name(e.file) \notin BuildNames

AnyCheckFails(f) == \E i \in 1..Len(CatalogCalls) : CheckFails(CatalogCalls[i], f)

(***************************************************************************)
(* C11: when a structural confirmation or a recipe's precondition check    *)
(* fails while get_cujgroups assembles the catalog, the call raises and    *)
(* returns nothing to its caller, not even a part of the catalog.          *)
(***************************************************************************)
C11_FailureAbortsCatalog ==
    [][(GetCujgroups /\ ~cache.set /\ AnyCheckFails(fs))
          => /\ last'.raised
             /\ catalog' = NoCatalog
             /\ cache' = NoCatalog]_vars

\* get_cujgroups has just raised on the confirmation of _unkept_build_cujs,
\* the earlier confirmations and recipe calls having succeeded
C11_Witness ==
    /\ last.op = "get_cujgroups"
    /\ last.raised
    /\ ~catalog.set
    /\ CheckFails(_unkept_build_cujs[1], fs)
    /\ \A i \in 1..Len(CatalogCalls) :
          CheckFails(CatalogCalls[i], fs) => CatalogCalls[i] = _unkept_build_cujs[1]

(***************************************************************************)
(* C12: the clean Step raises when the log directory is inside the source  *)
(* tree, and then leaves the output directory in place; otherwise it       *)
(* succeeds, whether or not the output directory exists, and the output    *)
(* directory does not exist afterwards.                                    *)
(***************************************************************************)
C12_CleanChecksLogDir ==
    [][Clean =>
          IF IsRelativeTo(log_dir, TopDir)
          THEN last'.raised /\ fs' = fs
          ELSE /\ ~last'.raised
               /\ ~Exists(fs', out_dir)
               /\ \A p \in DOMAIN fs :
                     ~IsRelativeTo(p, out_dir) => (Exists(fs', p) /\ fs'[p] = fs[p])]_vars

\* clean has just raised, the log directory being inside the source tree, and
\* the output directory is still there
C12_Witness ==
    /\ last.op = "clean"
    /\ last.raised
    /\ IsRelativeTo(log_dir, TopDir)
    /\ IsDir(fs, out_dir)

(***************************************************************************)
(* C17: once a call of get_cujgroups has returned a list, every later call *)
(* returns that same list of the same Groups in the same order, and runs   *)
(* no confirmation and no recipe again: it does not raise in a tree that   *)
(* no longer meets the confirmations, and draws no new uuid.               *)
(***************************************************************************)
C17_CatalogAssembledOnce ==
    [][(GetCujgroups /\ catalog.set)
          => /\ ~last'.raised
             /\ catalog' = catalog
             /\ next_uuid' = next_uuid]_vars

\* a call has just returned the list in a tree where assembling it would raise
C17_Witness ==
    /\ last.op = "get_cujgroups"
    /\ ~last.raised
    /\ catalog.set
    /\ AnyCheckFails(fs)

(***************************************************************************)
(* Specification of verification: the build-file recipes in the directory *)
(* src/d, under every build type.  The Groups are built first; the runner  *)
(* then takes them in their order and the Steps of each in order, and      *)
(* after a Step it runs the build under test, which regenerates the        *)
(* workspace in any of its shapes, then the Step's verify.                 *)
(***************************************************************************)
PkgDir == Parent(TextFile)
BuildFiles == { Join(PkgDir, "BUILD"), Join(PkgDir, "BUILD.bazel") }

\* what the merged BUILD.bazel of the workspace may hold: nothing, the marker
\* line of a Group, the first after another line, with a CR LF ending, or
\* cut before its newline
MergedContents ==
    { << >>, <<"/", "u1">>, <<"/", "u1", "CR", "LF">>, <<"x", "LF", "/", "u1", "LF">> }
    \cup {Encode(BogusText(u)) : u \in 2..MaxUuid}

\* the shapes of the workspace package of PkgDir: absent, one link to the
\* source directory, or a directory of links to the source files beside a
\* merged BUILD.bazel
Shapes ==
    {[shape |-> "absent", merged |-> << >>], [shape |-> "linked", merged |-> << >>]}
    \cup {[shape |-> "merged", merged |-> c] : c \in MergedContents}

Workspace(f, w) ==
    LET cleared == MkdirParents(RemoveTree(f, WsDir), WsDir).fs
        pkg_ws == WsCounterpart(PkgDir)
        mirrored == {q \in Children(f, PkgDir) : Name(q) # "BUILD.bazel"}
    IN IF w.shape = "absent" THEN cleared
       ELSE IF w.shape = "linked" THEN Put(cleared, pkg_ws, LinkEntry(PkgDir))
       ELSE [p \in DOMAIN cleared \cup {pkg_ws, Join(pkg_ws, "BUILD.bazel")}
                   \cup {WsCounterpart(q) : q \in mirrored} |->
                IF p \in DOMAIN cleared THEN cleared[p]
                ELSE IF p = pkg_ws THEN DirEntry
                ELSE IF p = Join(pkg_ws, "BUILD.bazel") THEN FileEntry(w.merged)
                ELSE LinkEntry(CHOOSE q \in mirrored : WsCounterpart(q) = p)]

\* the build under test runs after a Step and leaves the workspace in shape w
Build(w) ==
    /\ last.op = "apply_change"
    /\ ~last.raised
    /\ fs' = Workspace(fs, w)
    /\ last' = [op |-> "build", g |-> 0, step |-> 0, raised |-> FALSE]
    /\ UNCHANGED <<groups, original_text, next_uuid, tempdir, out_dir, hist, run_vars>>

InitVerify ==
    /\ InitCommon
    /\ build_type \in BuildTypes
    /\ log_dir = Logs
    /\ cache = NoCatalog
    /\ catalog = NoCatalog
    /\ logged = << >>
    /\ tempdir = Tmp
    /\ out_dir = <<"out">>
    /\ fs = Put(BaseTree(Tmp), TextFile, FileEntry(<<"}", "LF">>))

\* the runner may now apply Step s of the Group in slot g: no build awaits its
\* verify, the Steps before s and the Groups before g are done, and no Step
\* of a later Group has run
Turn(g, s) ==
    /\ last.op # "build"
    /\ hist[g].prev = s - 1
    /\ \A h \in Slots : h < g => hist[h].prev = Len(groups[h].steps)
    /\ \A h \in Slots : h > g => hist[h].prev = 0

\* the runner verifies the Step it applied, after the build
VerifyTurn(g, s) ==
    /\ last.op = "build"
    /\ hist[g].pos = s

\* no Step has run yet: the Groups to run are still being built
Assembling == \A g \in Slots : hist[g] = NoHist

NextVerify ==
    \/ \E b \in BuildFiles : Assembling /\ CreateDeleteKeptBuildFile(b)
    \/ Assembling /\ CreateDeleteUnkeptBuildFile(Join(PkgDir, "BUILD"))
    \/ Assembling /\ ModifyRevertKeptBuildFile(TextFile)
    \/ \E g \in Slots : Turn(g, 1) /\ Create(g)
    \/ \E g \in Slots : Turn(g, 2) /\ Delete(g)
    \/ \E g \in Slots : Turn(g, 1) /\ AddLine(g)
    \/ \E g \in Slots : Turn(g, 2) /\ Revert(g)
    \/ \E w \in Shapes : Build(w)
    \/ \E g \in Slots : \E s \in 1..2 : VerifyTurn(g, s) /\ Verify(g, s)

SpecVerify == InitVerify /\ [][NextVerify]_vars

KeptRecipes == {"create_delete_kept_build_file", "modify_revert_kept_build_file"}
UnkeptRecipes == {"create_delete_unkept_build_file"}

\* verify of Step s of the Group in slot g has just been called
Verified(g, s) == last.op = "verify" /\ last.g = g /\ last.step = s

\* the Verifier of the Step's own verify that comes before the merged-content
\* check does not hold in the workspace
OwnVerifyFails(g, s) ==
    \E i \in 1..(Len(groups[g].verify[s]) - 1) :
        /\ groups[g].verify[s][i].kind = "InWorkspace"
        /\ InWorkspaceOf(fs, groups[g].verify[s][i].file) # groups[g].verify[s][i].ws

\* the merged-content check of Step s: the last Verifier of its sequence
MergedCheck(g, s) == groups[g].verify[s][Len(groups[g].verify[s])]

(***************************************************************************)
(* C13: under SOONG_ONLY the merged-content check of a kept or unkept      *)
(* build-file Group never raises, whatever the merged file holds, and logs *)
(* that it was skipped; under every other build type its outcome is that   *)
(* of the check without the skip.                                          *)
(***************************************************************************)
C13_MergedCheckSkipped ==
    \A g \in Slots : \A s \in 1..2 :
        (/\ groups[g].recipe \in KeptRecipes \cup UnkeptRecipes
         /\ Verified(g, s)
         /\ ~OwnVerifyFails(g, s))
        => IF build_type = "SOONG_ONLY"
           THEN /\ ~last.raised
                /\ logged[Len(logged)] = "SKIPPED"
           ELSE LET check == MergedCheck(g, s)
                    unwrapped == IF check.kind = "contains"
                                 THEN contains(fs, check.file, check.content)
                                 ELSE does_not_contain(fs, check.file, check.content)
                IN /\ last.raised = unwrapped.raised
                   /\ ~last.raised => logged[Len(logged)] = "VERIFIED"

\* under SOONG_ONLY, the second Step of a kept Group has just been verified
\* without error although the merged file holds the marker line
C13_Witness ==
    \E g \in Slots :
        /\ build_type = "SOONG_ONLY"
        /\ groups[g].recipe \in KeptRecipes
        /\ Verified(g, 2)
        /\ ~last.raised
        /\ CanReadText(fs, MergedCheck(g, 2).file)
        /\ search(fs, MergedCheck(g, 2).file, MergedCheck(g, 2).content)

\* the merged BUILD.bazel of the workspace package of the Group's file holds
\* the marker text of the Group at the start of a line
MergedHasMarker(g) ==
    LET w == WsBuildFile(groups[g].file)
        marker == groups[g].text
    IN /\ CanReadText(fs, w)
       /\ \E i \in 1..Len(ReadText(fs, w)) :
             /\ i = 1 \/ ReadText(fs, w)[i - 1] = "LF"
             /\ i + Len(marker) - 1 <= Len(ReadText(fs, w))
             /\ SubSeq(ReadText(fs, w), i, i + Len(marker) - 1) = marker

(***************************************************************************)
(* C14: outside SOONG_ONLY, verify of a kept build-file Group fails after  *)
(* the first Step unless the merged BUILD.bazel holds the marker line, and *)
(* fails after the second Step if it holds it; verify of an unkept Group   *)
(* fails after either Step if the merged file holds the marker line.       *)
(***************************************************************************)
C14_MergedMarkerDecides ==
    \A g \in Slots : \A s \in 1..2 :
        (Verified(g, s) /\ build_type # "SOONG_ONLY")
        => /\ (groups[g].recipe \in KeptRecipes /\ s = 1 /\ ~MergedHasMarker(g))
                 => last.raised
           /\ (groups[g].recipe \in KeptRecipes /\ s = 2 /\ MergedHasMarker(g))
                 => last.raised
           /\ (groups[g].recipe \in UnkeptRecipes /\ MergedHasMarker(g))
                 => last.raised

\* outside SOONG_ONLY, verify of the second Step of a kept Group has just
\* failed on a merged file that holds the marker line, the Group's file being
\* absent from the workspace as the Step's own verify expects
C14_Witness ==
    \E g \in Slots :
        /\ build_type # "SOONG_ONLY"
        /\ groups[g].recipe = "create_delete_kept_build_file"
        /\ Verified(g, 2)
        /\ last.raised
        /\ ~OwnVerifyFails(g, 2)
        /\ MergedHasMarker(g)
        /\ hist[g].prev = 2

(***************************************************************************)
(* Specification of the Verifiers of create_delete: Groups built for every *)
(* InWorkspace relationship, run and verified as above.                    *)
(***************************************************************************)
CreatedFiles == { Join(PkgDir, "new"), Join(PkgDir, "BUILD.bazel") }
PlainShapes == {w \in Shapes : w.merged = << >>}

NextOmission ==
    \/ \E file \in CreatedFiles : \E ws \in InWorkspace :
          Assembling /\ CreateDelete(file, ws, NoText)
    \/ \E g \in Slots : Turn(g, 1) /\ Create(g)
    \/ \E g \in Slots : Turn(g, 2) /\ Delete(g)
    \/ \E w \in PlainShapes : Build(w)
    \/ \E g \in Slots : \E s \in 1..2 : VerifyTurn(g, s) /\ Verify(g, s)

SpecOmission == InitVerify /\ [][NextOmission]_vars

(***************************************************************************)
(* C15: in every Group create_delete(file, ws) returns, verify of the      *)
(* create Step is the Verifier of ws for file and verify of the delete     *)
(* Step is the OMISSION Verifier for file, whatever ws is: it fails        *)
(* exactly when the workspace counterpart of file exists.                  *)
(***************************************************************************)
C15_DeleteVerifiesOmission ==
    [][/\ \A file \in CreatedFiles : \A ws \in InWorkspace :
            (CreateDelete(file, ws, NoText) /\ ~last'.raised)
            => /\ groups'[last'.g].verify[1] = <<InWorkspaceVerifier(ws, file)>>
               /\ groups'[last'.g].verify[2] = <<InWorkspaceVerifier("OMISSION", file)>>
       /\ \A g \in Slots :
            (Verify(g, 2) /\ groups[g].recipe = "create_delete")
            => (last'.raised <=> WsExists(fs, WsCounterpart(groups[g].file)))]_vars

\* verify of the delete Step of a create_delete Group built for UNDER_SYMLINK
\* has just passed as the OMISSION Verifier: the package is linked into the
\* workspace and the file is gone from it
C15_Witness ==
    \E g \in Slots :
        /\ groups[g].recipe = "create_delete"
        /\ groups[g].verify[1][1].ws = "UNDER_SYMLINK"
        /\ groups[g].verify[2][1].ws = "OMISSION"
        /\ Verified(g, 2)
        /\ ~last.raised
        /\ IsLink(fs, WsCounterpart(PkgDir))
        /\ InWorkspaceOf(fs, groups[g].file) = "OMISSION"

(***************************************************************************)
(* Specification of construction against execution: every recipe is called *)
(* at any time, also between the Steps of the Groups built before.         *)
(***************************************************************************)
RecipeFiles == { TextFile, Join(PkgDir, "new") }
RecipeEdits == {e \in CannedEdits : e.replacement.text[1] = "0"}

InitRecipes ==
    /\ InitCommon
    /\ InitRun
    /\ tempdir = Tmp
    /\ out_dir = Out
    /\ fs = Put(BaseTree(Tmp), TextFile, FileEntry(<<"}", "LF">>))

\* a recipe is called and returns a Group or raises
Construct ==
    \/ \E file \in RecipeFiles : ModifyRevert(file, NoText)
    \/ \E e \in RecipeEdits :
          RegexModifyRevert(TextFile, e.pattern, e.replacement, e.modify_type)
    \/ \E file \in RecipeFiles : DeleteRestore(file, "SYMLINK")
    \/ \E file \in RecipeFiles \cup {<<"src", "n", "x">>} :
          CreateDelete(file, "SYMLINK", NoText)
    \/ \E p \in LinkTargets : ReplaceLinkWithDir(p)
    \/ ModifyRevertKeptBuildFile(TextFile)
    \/ CreateDeleteKeptBuildFile(Join(PkgDir, "BUILD.bazel"))
    \/ CreateDeleteUnkeptBuildFile(Join(PkgDir, "BUILD"))

\* apply_change of one Step of a Group runs, the Groups in the order they
\* were built and the Steps of each in their order
RunStep ==
    \/ \E g \in Slots : Turn(g, 1) /\ AddLine(g)
    \/ \E g \in Slots : Turn(g, 2) /\ Revert(g)
    \/ \E g \in Slots : Turn(g, 1) /\ RegexModify(g)
    \/ \E g \in Slots : Turn(g, 2) /\ RegexRevert(g)
    \/ \E g \in Slots : Turn(g, 1) /\ MoveToTempdir(g)
    \/ \E g \in Slots : Turn(g, 2) /\ Restore(g)
    \/ \E g \in Slots : Turn(g, 1) /\ Create(g)
    \/ \E g \in Slots : Turn(g, 2) /\ Delete(g)
    \/ \E g \in Slots : Turn(g, 2) /\ ReplaceIt(g)
    \/ \E g \in Slots : Turn(g, 3) /\ DeleteDir(g)

NextRecipes == Construct \/ RunStep

SpecRecipes == InitRecipes /\ [][NextRecipes]_vars

(***************************************************************************)
(* C16: calling a recipe runs none of the Steps of the Group it returns    *)
(* and leaves the filesystem as it was: no file or directory changes, no   *)
(* text is captured and no Step is recorded as run, whether the recipe     *)
(* returns or raises; the filesystem changes only while apply_change of a  *)
(* Step runs.                                                              *)
(***************************************************************************)
C16_ConstructionRunsNothing ==
    [][/\ Construct => /\ fs' = fs
                       /\ original_text' = original_text
                       /\ hist' = hist
       /\ fs' # fs => RunStep]_vars

\* create_delete has just returned a Group for a file in a missing directory,
\* after a Step of another Group changed the filesystem: the file and its
\* directory are still missing and no Step of the new Group has run
C16_Witness ==
    /\ last.op = "create_delete"
    /\ ~last.raised
    /\ groups[last.g].file = <<"src", "n", "x">>
    /\ hist[last.g] = NoHist
    /\ ~Exists(fs, <<"src", "n">>)
    /\ \E h \in Slots : hist[h].prev > 0
    /\ fs # Put(BaseTree(Tmp), TextFile, FileEntry(<<"}", "LF">>))

(***************************************************************************)
(* Specification of regex substitution on files the pattern may miss: the  *)
(* Groups and Steps of the specification above, on a file that holds text  *)
(* without a closing brace, with either line ending, or with one.          *)
(***************************************************************************)
SubContents ==
    { <<"x", "LF">>, <<"x", "CR", "LF">>, <<"}", "LF">>, <<"x", "}", "LF", "}">> }

InitSub ==
    /\ InitCommon
    /\ InitRun
    /\ tempdir = Tmp
    /\ out_dir = Out
    /\ \E c \in SubContents : fs = Put(BaseTree(Tmp), TextFile, FileEntry(c))

SpecSub == InitSub /\ [][NextRegex]_vars

(***************************************************************************)
(* C18: the modify Step of a regex_modify_revert Group on a readable file  *)
(* raises nothing and writes the text it read with the first match of the  *)
(* pattern replaced; when the pattern matches nowhere in that text, the    *)
(* file holds after modify what it held before.                            *)
(***************************************************************************)
C18_ModifyReplacesFirstMatchOnly ==
    [][\A g \in Slots :
          (RegexModify(g) /\ CanReadText(fs, groups[g].file))
          => LET file == groups[g].file
                 text == ReadText(fs, file)
             IN /\ ~last'.raised
                /\ IsFile(fs', file)
                /\ DecodeUtf8(fs'[file].data)
                      = ReSub(groups[g].pattern, groups[g].replacement, text)
                /\ Matches(groups[g].pattern, text) = {}
                      => fs'[file].data = fs[file].data]_vars

(***************************************************************************)
(* Specification of delete_restore Groups on two files of the same base    *)
(* name, src/d/a and src/e/a, that hold different contents.                *)
(***************************************************************************)
OtherFile == <<"src", "e", "a">>
BackupFiles == { TextFile, OtherFile }

\* what each of the two files holds before any Step runs
OwnContent(file) == IF file = TextFile THEN <<"}", "LF">> ELSE <<"y", "LF">>

InitBackup ==
    /\ InitCommon
    /\ InitRun
    /\ tempdir \in { Tmp, <<"var", "tmp">> }
    /\ out_dir = Out
    /\ fs = [p \in DOMAIN BaseTree(tempdir) \cup {Parent(OtherFile)} \cup BackupFiles |->
               IF p \in BackupFiles THEN FileEntry(OwnContent(p)) ELSE DirEntry]

NextBackup ==
    \/ \E original \in BackupFiles : DeleteRestore(original, "SYMLINK")
    \/ \E g \in Slots : MoveToTempdir(g)
    \/ \E g \in Slots : Restore(g)

SpecBackup == InitBackup /\ [][NextBackup]_vars

DeleteRestoreGroups == {g \in Slots : groups[g].kind = "delete_restore"}

(***************************************************************************)
(* C19: no two delete_restore Groups share a backup path, the backup path  *)
(* of a Group is the name of its file followed by the id drawn for it, and *)
(* whatever the order of the delete and restore Steps of Groups for files  *)
(* of the same base name, a backup only ever holds the content of its own  *)
(* Group's file and each file only ever holds its own content.             *)
(***************************************************************************)
C19_BackupPathsAreOwn ==
    /\ \A g, h \in DeleteRestoreGroups : g # h => groups[g].copied # groups[h].copied
    /\ \A g \in DeleteRestoreGroups :
          /\ Parent(groups[g].copied) = tempdir
          /\ \E u \in 1..MaxUuid :
                Name(groups[g].copied) = BakName(Name(groups[g].file), u)
          /\ Exists(fs, groups[g].copied)
                => /\ IsFile(fs, groups[g].copied)
                   /\ fs[groups[g].copied].data = OwnContent(groups[g].file)
    /\ \A file \in BackupFiles :
          Exists(fs, file) => (IsFile(fs, file) /\ fs[file].data = OwnContent(file))

\* the Groups of src/d/a and src/e/a have both run delete, and the first has
\* just restored its file while the backup of the second is still in place
C19_Witness ==
    /\ groups[1].kind = "delete_restore"
    /\ groups[2].kind = "delete_restore"
    /\ groups[1].file = TextFile
    /\ groups[2].file = OtherFile
    /\ last = [op |-> "apply_change", g |-> 1, step |-> 2, raised |-> FALSE]
    /\ hist[2].prev = 1
    /\ IsFile(fs, groups[2].copied)
    /\ ~Exists(fs, OtherFile)
    /\ IsFile(fs, TextFile)

====
